---- MODULE Spec2Model ----
(***************************************************************************)
(* Model of examples/sdk_example.rs: the Sultan L1 client SDK example.     *)
(*                                                                         *)
(* Text is modelled as sequences of one-character strings, bytes as        *)
(* sequences of 0..255.  hex, decimal, JSON and bech32 conversions are     *)
(* computed as the crates compute them.  The cryptographic primitives of   *)
(* the external crates (ed25519-dalek key derivation and signing, SHA-256) *)
(* are deterministic stand-in functions with the crates' output lengths.   *)
(***************************************************************************)
EXTENDS Integers, Sequences, FiniteSets, TLC

VARIABLES
    wallets,    \* slot -> NoWallet or a Wallet {signing_key, public_key, address}
    origin,     \* slot -> how the wallet of the slot was constructed (history)
    ret,        \* what the latest Wallet operation returned (history)
    base_url,   \* SultanSDK.base_url
    calls,      \* send_sltn call -> its locals and its position
    query,      \* the get_status / get_balance / get_transaction call in flight
    env         \* the remote RPC service (account nonce, accepted transfers) and the clock

vars == <<wallets, origin, ret, base_url, calls, query, env>>

----------------------------------------------------------------------------
(* Bounds of the model *)

NumSeeds == 2       \* secret keys the random generator may draw
MaxWallets == 2     \* Wallet values alive at once
MaxCalls == 2       \* overlapping send_sltn calls

----------------------------------------------------------------------------
(* Text and bytes *)

\* the printable ASCII characters, code 32 first (code 96 is spelled out)
Ascii ==
    << " ", "!", "\"", "#", "$", "%", "&", "'", "(", ")", "*", "+", ",", "-", ".", "/",
       "0", "1", "2", "3", "4", "5", "6", "7", "8", "9", ":", ";", "<", "=", ">", "?",
       "@", "A", "B", "C", "D", "E", "F", "G", "H", "I", "J", "K", "L", "M", "N", "O",
       "P", "Q", "R", "S", "T", "U", "V", "W", "X", "Y", "Z", "[", "\\", "]", "^", "_",
       "(grave)", "a", "b", "c", "d", "e", "f", "g", "h", "i", "j", "k", "l", "m", "n", "o",
       "p", "q", "r", "s", "t", "u", "v", "w", "x", "y", "z", "{", "|", "}", "~" >>

\* str::as_bytes of one ASCII character
OrdTable == [c \in { Ascii[i] : i \in 1..Len(Ascii) } |->
                31 + CHOOSE i \in 1..Len(Ascii) : Ascii[i] = c]
Ord(c) == OrdTable[c]

AsBytes(s) == [i \in 1..Len(s) |-> Ord(s[i])]

RECURSIVE Str(_)
\* a character sequence as one string
Str(s) ==
    IF s = <<>> THEN ""
    ELSE IF Len(s) = 1 THEN s[1]
    ELSE Str(SubSeq(s, 1, Len(s) \div 2)) \o Str(SubSeq(s, (Len(s) \div 2) + 1, Len(s)))

RECURSIVE Flatten(_)
\* the concatenation of a sequence of sequences
Flatten(ss) ==
    IF ss = <<>> THEN <<>>
    ELSE IF Len(ss) = 1 THEN ss[1]
    ELSE Flatten(SubSeq(ss, 1, Len(ss) \div 2))
         \o Flatten(SubSeq(ss, (Len(ss) \div 2) + 1, Len(ss)))

POW2 == << 1, 2, 4, 8, 16, 32, 64, 128, 256, 512, 1024, 2048, 4096, 8192, 16384, 32768 >>
Pow2(n) == POW2[n + 1]

RECURSIVE Xor(_, _)
\* bitwise exclusive or of two naturals
Xor(a, b) ==
    IF a = 0 THEN b
    ELSE IF b = 0 THEN a
    ELSE (((a % 2) + (b % 2)) % 2) + 2 * Xor(a \div 2, b \div 2)

----------------------------------------------------------------------------
(* hex crate *)

HEX_CHARS_LOWER ==
    << "0", "1", "2", "3", "4", "5", "6", "7", "8", "9", "a", "b", "c", "d", "e", "f" >>
HEX_CHARS_UPPER ==
    << "0", "1", "2", "3", "4", "5", "6", "7", "8", "9", "A", "B", "C", "D", "E", "F" >>

\* hex::encode without the zero padding of a byte below 16
HexEncodeUnpadded(bytes) ==
    Flatten([i \in 1..Len(bytes) |->
               IF bytes[i] < 16 THEN << HEX_CHARS_LOWER[bytes[i] + 1] >>
               ELSE << HEX_CHARS_LOWER[(bytes[i] \div 16) + 1],
                       HEX_CHARS_LOWER[(bytes[i] % 16) + 1] >>])

\* hex::encode: two lowercase digits per byte, high nibble first
HexEncode(bytes) ==
    [i \in 1..(2 * Len(bytes)) |->
        IF i % 2 = 1 THEN HEX_CHARS_LOWER[(bytes[(i + 1) \div 2] \div 16) + 1]
        ELSE HEX_CHARS_LOWER[(bytes[i \div 2] % 16) + 1]]

IsHexDigit(c) ==
    \E i \in 1..16 : HEX_CHARS_LOWER[i] = c \/ HEX_CHARS_UPPER[i] = c

\* hex's val(): the value of a digit of either case
HexVal(c) ==
    (CHOOSE i \in 1..16 : HEX_CHARS_LOWER[i] = c \/ HEX_CHARS_UPPER[i] = c) - 1

\* hex::decode: Err on an odd length or on any character that is no hex digit
HexDecode(s) ==
    IF Len(s) % 2 # 0
    THEN [ok |-> FALSE, err |-> "OddLength", bytes |-> <<>>]
    ELSE IF \E i \in 1..Len(s) : ~IsHexDigit(s[i])
    THEN [ok |-> FALSE, err |-> "InvalidHexCharacter", bytes |-> <<>>]
    ELSE [ok |-> TRUE, err |-> "",
          bytes |-> [i \in 1..(Len(s) \div 2) |->
                        HexVal(s[2 * i - 1]) * 16 + HexVal(s[2 * i])]]

----------------------------------------------------------------------------
(* External cryptography: ed25519-dalek and sha2.  Each is a deterministic *)
(* function of its inputs with the output length of the crate.             *)

SECRET_KEY_LENGTH == 32
PUBLIC_KEY_LENGTH == 32
SIGNATURE_LENGTH == 64
SHA256_OUTPUT_LENGTH == 32

RECURSIVE Absorb(_, _)
\* a running digest of a byte sequence, computed left to right
Absorb(acc, bytes) ==
    IF bytes = <<>> THEN acc
    ELSE IF Len(bytes) = 1 THEN (acc * 31 + bytes[1] + 7) % 65521
    ELSE LET h == Len(bytes) \div 2
             left == Absorb(acc, SubSeq(bytes, 1, h))
         IN IF left >= 0 THEN Absorb(left, SubSeq(bytes, h + 1, Len(bytes))) ELSE 0

\* Sha256::new(); update(data); finalize(): 32 bytes
Sha256(data) ==
    LET d == Absorb(17, data)
    IN [i \in 1..SHA256_OUTPUT_LENGTH |-> (d * (i + 3) + (d \div i) + 5 * i) % 256]

\* SigningKey::verifying_key: 32 bytes, a function of the secret key alone
VerifyingKeyOf(signing_key) ==
    LET d == Absorb(101, signing_key)
    IN [i \in 1..PUBLIC_KEY_LENGTH |-> (d * (2 * i + 1) + (d \div (i + 1)) + 3 * i) % 256]

\* Signer::sign (RFC 8032, deterministic): 64 bytes
Ed25519Sign(signing_key, message) ==
    LET d == Absorb(Absorb(211, signing_key), message)
    IN [i \in 1..SIGNATURE_LENGTH |-> (d * (i + 7) + (d \div (i + 2)) + 11 * i) % 256]

\* SigningKey::try_from that takes the first 32 bytes of a longer slice
SigningKeyTryFromPrefix(key_bytes) ==
    IF Len(key_bytes) >= SECRET_KEY_LENGTH
    THEN [ok |-> TRUE, key |-> SubSeq(key_bytes, 1, SECRET_KEY_LENGTH)]
    ELSE [ok |-> FALSE, key |-> <<>>]

\* SigningKey::try_from(&[u8]): Err unless the slice holds exactly 32 bytes
SigningKeyTryFrom(key_bytes) ==
    IF Len(key_bytes) = SECRET_KEY_LENGTH
    THEN [ok |-> TRUE, key |-> key_bytes]
    ELSE [ok |-> FALSE, key |-> <<>>]

----------------------------------------------------------------------------
(* bech32 crate *)

BECH32_CHARSET ==
    << "q", "p", "z", "r", "y", "9", "x", "8", "g", "f", "2", "t", "v", "d", "w", "0",
       "s", "3", "j", "n", "5", "4", "k", "h", "c", "e", "6", "m", "u", "a", "7", "l" >>

\* the generator 0x3b6a57b2, 0x26508e6d, 0x1ea119fa, 0x3d4233dd, 0x2a1462b3 of the
\* checksum, each 30-bit word as six 5-bit values, most significant first
BECH32_GEN ==
    << << 29, 22, 20, 21, 29, 18 >>, << 19, 5, 1, 3, 19, 13 >>, << 15, 10, 2, 6, 15, 26 >>,
       << 30, 20, 4, 12, 30, 29 >>, << 21, 1, 8, 24, 21, 19 >> >>

\* exclusive or of two 5-bit values
Xor5 == [a \in 0..31 |-> [b \in 0..31 |-> Xor(a, b)]]

\* exclusive or of two 30-bit words held as six 5-bit values
XorWord(x, y) == [i \in 1..6 |-> Xor5[x[i]][y[i]]]

\* one step of the checksum polynomial: chk = (chk & 0x1ffffff) << 5 ^ v, then
\* the generator words selected by the five bits shifted out
PolymodStep(chk, v) ==
    LET b == chk[1]
        c0 == << chk[2], chk[3], chk[4], chk[5], chk[6], v >>
        RECURSIVE Fold(_, _)
        Fold(c, i) ==
            IF i > 5 THEN c
            ELSE LET next == IF (b \div Pow2(i - 1)) % 2 = 1 THEN XorWord(c, BECH32_GEN[i])
                             ELSE c
                 IN IF Len(next) = 6 THEN Fold(next, i + 1) ELSE <<>>
    IN Fold(c0, 1)

RECURSIVE Polymod(_, _)
Polymod(chk, values) ==
    IF values = <<>> THEN chk
    ELSE IF Len(values) = 1 THEN PolymodStep(chk, values[1])
    ELSE LET h == Len(values) \div 2
             left == Polymod(chk, SubSeq(values, 1, h))
         IN IF Len(left) = 6 THEN Polymod(left, SubSeq(values, h + 1, Len(values))) ELSE <<>>

HrpExpand(hrp) ==
    [i \in 1..Len(hrp) |-> Ord(hrp[i]) \div 32] \o <<0>> \o
    [i \in 1..Len(hrp) |-> Ord(hrp[i]) % 32]

\* bytes regrouped into 5-bit values, most significant bit first, zero padded
BytesToFes(bytes) ==
    LET nbits == 8 * Len(bytes)
        Bit(k) == IF k >= nbits THEN 0
                  ELSE (bytes[(k \div 8) + 1] \div Pow2(7 - (k % 8))) % 2
    IN [j \in 1..((nbits + 4) \div 5) |->
          16 * Bit(5 * (j - 1)) + 8 * Bit(5 * (j - 1) + 1) + 4 * Bit(5 * (j - 1) + 2)
          + 2 * Bit(5 * (j - 1) + 3) + Bit(5 * (j - 1) + 4)]

\* bech32::encode::<Bech32>(hrp, data): hrp, "1", the data and a 6-character checksum
Bech32Encode(hrp, data) ==
    LET fes == BytesToFes(data)
        pm == Polymod(<<0, 0, 0, 0, 0, 1>>, HrpExpand(hrp) \o fes \o <<0, 0, 0, 0, 0, 0>>)
        sum == XorWord(pm, <<0, 0, 0, 0, 0, 1>>)
    IN hrp \o <<"1">> \o [i \in 1..Len(fes) |-> BECH32_CHARSET[fes[i] + 1]]
           \o [i \in 1..6 |-> BECH32_CHARSET[sum[i] + 1]]

----------------------------------------------------------------------------
(* Wallet *)

HRP == << "s", "u", "l", "t", "a", "n" >>
ADDR_LEN == 20

Slots == 1..MaxWallets
Seeds == 1..NumSeeds

\* SigningKey::generate(&mut rand::thread_rng()): the 32 bytes drawn for a seed
GenerateKey(seed) == [i \in 1..SECRET_KEY_LENGTH |-> ((seed - 1) * (13 * i + 5)) % 256]

NoWallet == [signing_key |-> <<>>, public_key |-> <<>>, address |-> <<>>]

\* Wallet::new, the address derivation: SHA256(pubkey)[0:20] -> bech32("sultan")
AddressInNew(public_key) ==
    LET hash == Sha256(public_key)
        addr_bytes == SubSeq(hash, 1, ADDR_LEN)
    IN Bech32Encode(HRP, addr_bytes)

\* the derivation of from_private_key with the digest cut one byte short
AddressInFromPrivateKeyShort(public_key) ==
    LET hash == Sha256(public_key)
        addr_bytes == SubSeq(hash, 1, ADDR_LEN - 1)
    IN Bech32Encode(HRP, addr_bytes)

\* Wallet::from_private_key, the address derivation (the same statements again)
AddressInFromPrivateKey(public_key) ==
    LET hash == Sha256(public_key)
        addr_bytes == SubSeq(hash, 1, ADDR_LEN)
    IN Bech32Encode(HRP, addr_bytes)

\* Wallet::new with the key the generator drew
WalletNewFrom(signing_key) ==
    LET public_key == VerifyingKeyOf(signing_key)
    IN [signing_key |-> signing_key, public_key |-> public_key,
        address |-> AddressInNew(public_key)]

\* Wallet::from_private_key: the two `?` return Err, otherwise Ok(wallet)
FromPrivateKey(hex_key) ==
    LET decoded == HexDecode(hex_key)
        parsed == SigningKeyTryFrom(decoded.bytes)
        public_key == VerifyingKeyOf(parsed.key)
    IN IF ~decoded.ok THEN [ok |-> FALSE, wallet |-> NoWallet]
       ELSE IF ~parsed.ok THEN [ok |-> FALSE, wallet |-> NoWallet]
       ELSE [ok |-> TRUE,
             wallet |-> [signing_key |-> parsed.key, public_key |-> public_key,
                         address |-> AddressInFromPrivateKey(public_key)]]

\* Wallet::sign: hex of the 64 signature bytes
Sign(wallet, message) == HexEncode(Ed25519Sign(wallet.signing_key, message))

\* Wallet::public_key_hex
PublicKeyHex(wallet) == HexEncode(wallet.public_key)

\* the hex strings handed to from_private_key: exported keys in either case,
\* and the same with digits removed, added or replaced
ToUpper(s) == [i \in 1..Len(s) |-> IF IsHexDigit(s[i]) THEN HEX_CHARS_UPPER[HexVal(s[i]) + 1]
                                    ELSE s[i]]
ReplaceAt(s, p, c) == [i \in 1..Len(s) |-> IF i = p THEN c ELSE s[i]]
HexInputsOf(h) ==
    { h, ToUpper(h), SubSeq(h, 1, Len(h) - 1), SubSeq(h, 1, Len(h) - 2),
      h \o <<"0">>, h \o <<"0", "0">>, <<"0", "x">> \o h, <<>>,
      ReplaceAt(h, 1, "g"), ReplaceAt(h, Len(h), " "), ReplaceAt(h, 2, "G") }
HexInputs == UNION { HexInputsOf(HexEncode(GenerateKey(seed))) : seed \in Seeds }

\* the messages handed to sign
TestMessage == << "t", "e", "s", "t", " ", "m", "e", "s", "s", "a", "g", "e" >>
Messages == { <<>>, AsBytes(TestMessage), AsBytes(TestMessage \o TestMessage) }

\* the wallets the constructors return, for each key drawn and each input
NewWallets == [seed \in Seeds |-> WalletNewFrom(GenerateKey(seed))]
Imports == [hex_key \in HexInputs |-> FromPrivateKey(hex_key)]

NoReturn == [op |-> "none", slot |-> 0, input |-> <<>>, ok |-> TRUE, value |-> <<>>]
NoOrigin == [how |-> "none", hex |-> <<>>]

\* let wallet = Wallet::new();
WalletNew(s) ==
    /\ origin[s].how = "none"
    /\ \E seed \in Seeds :
         /\ wallets' = [wallets EXCEPT ![s] = NewWallets[seed]]
         /\ origin' = [origin EXCEPT ![s] = [how |-> "new", hex |-> <<>>]]
         /\ ret' = [op |-> "new", slot |-> s, input |-> <<>>, ok |-> TRUE, value |-> <<>>]
    /\ UNCHANGED <<base_url, calls, query, env>>

\* let wallet = Wallet::from_private_key(hex_key);
WalletFromPrivateKey(s) ==
    /\ origin[s].how = "none"
    /\ \E hex_key \in HexInputs :
         LET r == Imports[hex_key]
         IN /\ wallets' = IF r.ok THEN [wallets EXCEPT ![s] = r.wallet] ELSE wallets
            /\ origin' = IF r.ok THEN [origin EXCEPT ![s] = [how |-> "import", hex |-> hex_key]]
                         ELSE origin
            /\ ret' = [op |-> "from_private_key", slot |-> s, input |-> hex_key,
                       ok |-> r.ok, value |-> <<>>]
    /\ UNCHANGED <<base_url, calls, query, env>>

\* wallet.sign(message)
WalletSign(s) ==
    /\ origin[s].how # "none"
    /\ \E message \in Messages :
         ret' = [op |-> "sign", slot |-> s, input |-> message, ok |-> TRUE,
                 value |-> Sign(wallets[s], message)]
    /\ UNCHANGED <<wallets, origin, base_url, calls, query, env>>

\* wallet.public_key_hex()
WalletPublicKeyHex(s) ==
    /\ origin[s].how # "none"
    /\ ret' = [op |-> "public_key_hex", slot |-> s, input |-> <<>>, ok |-> TRUE,
               value |-> PublicKeyHex(wallets[s])]
    /\ UNCHANGED <<wallets, origin, base_url, calls, query, env>>

----------------------------------------------------------------------------
(* Unsigned integers wider than 32 bits: little-endian limbs of 15 bits,       *)
(* without leading zero limbs (zero is the empty sequence), at most 9 limbs.   *)
(* Carries are resolved without recursion: a digit receives a carry when some  *)
(* lower digit overflows and every digit between is at its maximum.            *)

LIMB == 32768
LIMB_BITS == 15
GROUP == 1000

Max(a, b) == IF a >= b THEN a ELSE b

Digit(x, i) == IF i >= 1 /\ i <= Len(x) THEN x[i] ELSE 0

Sum9(F(_)) == F(1) + F(2) + F(3) + F(4) + F(5) + F(6) + F(7) + F(8) + F(9)

BNNorm(x) ==
    IF \A i \in 1..Len(x) : x[i] = 0 THEN <<>>
    ELSE SubSeq(x, 1, CHOOSE i \in 1..Len(x) :
                          x[i] # 0 /\ \A j \in (i + 1)..Len(x) : x[j] = 0)

\* x + y in base b
AddInBase(x, y, b) ==
    LET n == Max(Len(x), Len(y)) + 1
        t == [i \in 1..n |-> Digit(x, i) + Digit(y, i)]
        carry == [i \in 1..n |->
                    IF \E j \in 1..(i - 1) :
                          t[j] >= b /\ \A k \in (j + 1)..(i - 1) : t[k] = b - 1
                    THEN 1 ELSE 0]
    IN BNNorm([i \in 1..n |-> (t[i] + carry[i]) % b])

\* the number whose digit i in base b is worth cols[i], each below 2^31
FromColumns(cols, b) ==
    LET lo == [i \in 1..Len(cols) |-> cols[i] % b]
        mid == [i \in 1..(Len(cols) + 1) |-> IF i = 1 THEN 0 ELSE (cols[i - 1] \div b) % b]
        hi == [i \in 1..(Len(cols) + 2) |-> IF i <= 2 THEN 0 ELSE cols[i - 2] \div (b * b)]
    IN AddInBase(AddInBase(lo, mid, b), hi, b)

BNFromNat(n) == BNNorm(<< n % LIMB, (n \div LIMB) % LIMB, n \div (LIMB * LIMB) >>)

BNAdd(x, y) == AddInBase(x, y, LIMB)

\* x * y, the partial products summed by column
BNMul(x, y) ==
    LET n == Len(x) + Len(y)
        cols == [c \in 1..n |->
                   LET Lo(i) == (Digit(x, i) * Digit(y, c + 1 - i)) % LIMB
                       Hi(i) == (Digit(x, i) * Digit(y, c - i)) \div LIMB
                   IN Sum9(Lo) + Sum9(Hi)]
    IN FromColumns(cols, LIMB)

BNBitLen(x) ==
    IF x = <<>> THEN 0
    ELSE LIMB_BITS * (Len(x) - 1)
         + CHOOSE k \in 1..LIMB_BITS : Pow2(k - 1) <= x[Len(x)] /\ x[Len(x)] < Pow2(k)

\* bit i of x, bit 0 the least significant
BNBit(x, i) ==
    IF i \div LIMB_BITS >= Len(x) THEN 0
    ELSE (x[(i \div LIMB_BITS) + 1] \div Pow2(i % LIMB_BITS)) % 2

\* whether the s low bits of x are all zero
BNLowZero(x, s) ==
    /\ \A j \in 1..(s \div LIMB_BITS) : j <= Len(x) => x[j] = 0
    /\ (s \div LIMB_BITS) < Len(x) => x[(s \div LIMB_BITS) + 1] % Pow2(s % LIMB_BITS) = 0

BNShiftRight(x, k) ==
    LET w == k \div LIMB_BITS
        r == k % LIMB_BITS
    IN IF w >= Len(x) THEN <<>>
       ELSE BNNorm([i \in 1..(Len(x) - w) |->
                      (x[i + w] \div Pow2(r))
                      + (Digit(x, i + w + 1) % Pow2(r)) * Pow2(LIMB_BITS - r)])

BNShiftLeft(x, k) ==
    LET w == k \div LIMB_BITS
        r == k % LIMB_BITS
    IN IF x = <<>> THEN <<>>
       ELSE BNNorm([i \in 1..(Len(x) + w + 1) |->
                      IF i <= w THEN 0
                      ELSE (Digit(x, i - w) % Pow2(LIMB_BITS - r)) * Pow2(r)
                           + (Digit(x, i - w - 1) \div Pow2(LIMB_BITS - r))])

DIGITS == << "0", "1", "2", "3", "4", "5", "6", "7", "8", "9" >>

POW10 == << 1, 10, 100, 1000, 10000, 100000, 1000000, 10000000, 100000000, 1000000000 >>

\* Display of a u64 (here below 2^31): decimal, no sign, no leading zero
U64ToString(n) ==
    LET len == CHOOSE k \in 1..10 : POW10[k] <= Max(n, 1) /\ (k = 10 \/ n < POW10[k + 1])
    IN [i \in 1..len |-> DIGITS[((n \div POW10[len - i + 1]) % 10) + 1]]

\* LIMB^(i-1) in base 1000, for each limb i
LimbPowers ==
    LET Times(x) == FromColumns([i \in 1..Len(x) |-> x[i] * LIMB], GROUP)
        p1 == << 1 >>
        p2 == Times(p1)
        p3 == Times(p2)
        p4 == Times(p3)
        p5 == Times(p4)
        p6 == Times(p5)
        p7 == Times(p6)
        p8 == Times(p7)
        p9 == Times(p8)
    IN << p1, p2, p3, p4, p5, p6, p7, p8, p9 >>

\* the groups of three decimal digits of x, least significant group first
DecimalGroups(x) ==
    LET n == 3 * Len(x)
        cols == [c \in 1..n |->
                   LET Term(i) == Digit(x, i) * Digit(LimbPowers[i], c)
                   IN Sum9(Term)]
    IN FromColumns(cols, GROUP)

\* the decimal digits of groups of three, the first group without leading zeros
GroupDigits(g) ==
    LET top == g[Len(g)]
        lead == IF top >= 100 THEN 3 ELSE IF top >= 10 THEN 2 ELSE 1
        len == 3 * (Len(g) - 1) + lead
        \* decimal position k counted from the least significant digit, from 0
        At(k) == (g[(k \div 3) + 1] \div POW10[(k % 3) + 1]) % 10
    IN [i \in 1..len |-> DIGITS[At(len - i) + 1]]

\* u128::to_string: decimal, no sign, no leading zero
U128ToString(x) == IF x = <<>> THEN << "0" >> ELSE GroupDigits(DecimalGroups(x))

\* u128::MAX = 2^128 - 1
U128_MAX == << 32767, 32767, 32767, 32767, 32767, 32767, 32767, 32767, 255 >>

----------------------------------------------------------------------------
(* f64: an IEEE-754 binary64 value is given by its 16 hexadecimal digits and *)
(* decoded to sign, integer significand m and exponent e (value m * 2^e).    *)

F64_MANT_BITS == 53
F64_MIN_EXP == -1074
F64_MAX_BITS == 1024

\* the number written by hexadecimal digits, most significant first
HexDigitsToBN(ds) ==
    LET Bit(k) == IF k \div 4 >= Len(ds) THEN 0
                  ELSE (ds[Len(ds) - (k \div 4)] \div Pow2(k % 4)) % 2
    IN BNNorm([j \in 1..(((4 * Len(ds)) \div LIMB_BITS) + 1) |->
                 LET B(i) == Bit(LIMB_BITS * (j - 1) + i) * Pow2(i)
                 IN B(0) + B(1) + B(2) + B(3) + B(4) + B(5) + B(6) + B(7) + B(8) + B(9)
                    + B(10) + B(11) + B(12) + B(13) + B(14)])

F64Decode(bits) ==
    LET sign == bits[1] \div 8
        biased == ((bits[1] % 8) * 256) + (bits[2] * 16) + bits[3]
        frac == HexDigitsToBN(SubSeq(bits, 4, 16))
    IN IF biased = 2047
       THEN [kind |-> IF frac = <<>> THEN "inf" ELSE "nan", sign |-> sign, m |-> <<>>, e |-> 0]
       ELSE IF biased = 0
       THEN [kind |-> "finite", sign |-> sign, m |-> frac, e |-> F64_MIN_EXP]
       ELSE [kind |-> "finite", sign |-> sign,
             m |-> BNAdd(frac, BNShiftLeft(<<1>>, F64_MANT_BITS - 1)),
             e |-> biased - 1075]

\* a * b rounded to nearest, ties to even
F64Mul(a, b) ==
    LET sign == (a.sign + b.sign) % 2
        p == BNMul(a.m, b.m)
        e == a.e + b.e
        s == Max(Max(BNBitLen(p) - F64_MANT_BITS, F64_MIN_EXP - e), 0)
        q == BNShiftRight(p, s)
        up == /\ s > 0
              /\ BNBit(p, s - 1) = 1
              /\ (~BNLowZero(p, s - 1) \/ BNBit(q, 0) = 1)
        m == IF up THEN BNAdd(q, <<1>>) ELSE q
    IN IF a.kind = "nan" \/ b.kind = "nan" THEN [kind |-> "nan", sign |-> sign, m |-> <<>>, e |-> 0]
       ELSE IF a.kind = "inf" \/ b.kind = "inf"
       THEN (IF (a.kind = "finite" /\ a.m = <<>>) \/ (b.kind = "finite" /\ b.m = <<>>)
             THEN [kind |-> "nan", sign |-> sign, m |-> <<>>, e |-> 0]
             ELSE [kind |-> "inf", sign |-> sign, m |-> <<>>, e |-> 0])
       ELSE IF BNBitLen(m) + e + s > F64_MAX_BITS
       THEN [kind |-> "inf", sign |-> sign, m |-> <<>>, e |-> 0]
       ELSE [kind |-> "finite", sign |-> sign, m |-> m, e |-> e + s]

\* `x as u128` rounding to the nearest integer instead of toward zero
F64RoundToU128(x) ==
    IF x.kind = "nan" THEN <<>>
    ELSE IF x.sign = 1 THEN <<>>
    ELSE IF x.kind = "inf" THEN U128_MAX
    ELSE IF x.e >= 0
    THEN (IF BNBitLen(x.m) + x.e > 128 THEN U128_MAX ELSE BNShiftLeft(x.m, x.e))
    ELSE IF BNBit(x.m, (-x.e) - 1) = 1 THEN BNAdd(BNShiftRight(x.m, -x.e), <<1>>)
    ELSE BNShiftRight(x.m, -x.e)

\* `x as u128`: toward zero, NaN and negatives to 0, too large to u128::MAX
F64AsU128(x) ==
    IF x.kind = "nan" THEN <<>>
    ELSE IF x.sign = 1 THEN <<>>
    ELSE IF x.kind = "inf" THEN U128_MAX
    ELSE IF x.e >= 0
    THEN (IF BNBitLen(x.m) + x.e > 128 THEN U128_MAX ELSE BNShiftLeft(x.m, x.e))
    ELSE BNShiftRight(x.m, -x.e)

\* the literal 1_000_000_000.0
F64_1E9 == F64Decode(<< 4, 1, 12, 13, 12, 13, 6, 5, 0, 0, 0, 0, 0, 0, 0, 0 >>)

\* (amount_sltn * 1_000_000_000.0) as u128
AmountAtomic(amount_sltn) == F64AsU128(F64Mul(F64Decode(amount_sltn), F64_1E9))

----------------------------------------------------------------------------
(* serde_json *)

\* format_escaped_str: the quote and the backslash are escaped (of the printable
\* characters these are the only two)
JsonString(str) ==
    << "\"" >>
    \o Flatten([i \in 1..Len(str) |->
                   IF str[i] = "\"" THEN << "\\", "\"" >>
                   ELSE IF str[i] = "\\" THEN << "\\", "\\" >>
                   ELSE << str[i] >>])
    \o << "\"" >>

\* a derived Serialize impl through serde_json::to_string: the fields in the
\* order of their declaration, compact
JsonStruct(fields) ==
    << "{" >>
    \o Flatten([i \in 1..Len(fields) |->
                   (IF i = 1 THEN <<>> ELSE << "," >>)
                   \o JsonString(fields[i].name) \o << ":" >> \o fields[i].text])
    \o << "}" >>

K_amount == << "a", "m", "o", "u", "n", "t" >>
K_from == << "f", "r", "o", "m" >>
K_memo == << "m", "e", "m", "o" >>
K_nonce == << "n", "o", "n", "c", "e" >>
K_timestamp == << "t", "i", "m", "e", "s", "t", "a", "m", "p" >>
K_to == << "t", "o" >>

\* TransactionForSigning serialized in the field order of TransactionBody, the
\* amount a number
TransactionForSigningJsonAsBody(tx) ==
    JsonStruct(<< [name |-> K_from, text |-> JsonString(tx.from)],
                  [name |-> K_to, text |-> JsonString(tx.to)],
                  [name |-> K_amount, text |-> tx.amount],
                  [name |-> K_timestamp, text |-> U64ToString(tx.timestamp)],
                  [name |-> K_nonce, text |-> U64ToString(tx.nonce)],
                  [name |-> K_memo, text |-> JsonString(tx.memo)] >>)

\* serde_json::to_string(&tx_for_signing) for struct TransactionForSigning
TransactionForSigningJson(tx) ==
    JsonStruct(<< [name |-> K_amount, text |-> JsonString(tx.amount)],
                  [name |-> K_from, text |-> JsonString(tx.from)],
                  [name |-> K_memo, text |-> JsonString(tx.memo)],
                  [name |-> K_nonce, text |-> U64ToString(tx.nonce)],
                  [name |-> K_timestamp, text |-> U64ToString(tx.timestamp)],
                  [name |-> K_to, text |-> JsonString(tx.to)] >>)

----------------------------------------------------------------------------
(* SultanSDK *)

RPC_URL == << "h", "t", "t", "p", "s", ":", "/", "/", "r", "p", "c", ".", "s", "l", "t", "n", ".", "i", "o" >>
TESTNET_URL == << "h", "t", "t", "p", "s", ":", "/", "/", "t", "e", "s", "t", "n", "e", "t", ".", "s", "l", "t", "n", ".", "i", "o" >>
CUSTOM_URL == << "h", "t", "t", "p", ":", "/", "/", "l", "o", "c", "a", "l", "h", "o", "s", "t", ":", "8", "5", "4", "5" >>

StatusPath == << "/", "s", "t", "a", "t", "u", "s" >>
BalancePath == << "/", "b", "a", "l", "a", "n", "c", "e", "/" >>
TxPath == << "/", "t", "x" >>
Slash == << "/" >>

Calls == 1..MaxCalls

\* the wallet handed to send_sltn
SdkWallet == wallets[1]

NoBody ==
    [tx |-> [from |-> <<>>, to |-> <<>>, amount |-> <<>>, timestamp |-> 0, nonce |-> 0,
             memo |-> <<>>],
     signature |-> <<>>, public_key |-> <<>>]
NoBalance == [address |-> <<>>, balance |-> <<>>, nonce |-> 0]
NoResult == [ok |-> TRUE, value |-> "none"]

\* the locals of a send_sltn call that has not run yet
NewCall(pc, to, amount_sltn) ==
    [pc |-> pc, to |-> to, amount_sltn |-> amount_sltn, events |-> <<>>, requests |-> <<>>,
     balance |-> NoBalance, seen |-> 0, nonce |-> 0, amount_atomic |-> <<>>, timestamp |-> 0,
     message |-> <<>>, signature |-> <<>>, request |-> NoBody, result |-> NoResult]
NoCall == NewCall("absent", <<>>, <<>>)
NoQuery == [pc |-> "idle", op |-> "none", requests |-> <<>>, result |-> NoResult]

\* self.client.get(&url) and self.client.post(&url).json(&request)
HttpGet(url) == [method |-> "GET", url |-> url, body |-> NoBody]
HttpPost(url, body) == [method |-> "POST", url |-> url, body |-> body]

\* get_balance: format!("{}/balance/{}", self.base_url, address)
BalanceRequest(address) == HttpGet(base_url \o BalancePath \o address)

\* the nonce of a call that adds one to what the network returned
BalanceNonceIncremented(c, balance) == balance.nonce + 1

\* the nonce of a call that counts the sends of this client still in flight
BalanceNonceReserved(c, balance) ==
    balance.nonce + Cardinality({d \in Calls \ {c} : calls[d].pc = "await_post"})

\* let nonce = balance.nonce;
BalanceNonce(c, balance) == balance.nonce

\* what the remote service answers to GET /balance/{address}
BalanceResponses(address) ==
    { [address |-> address, balance |-> BNFromNat(1000000000), nonce |-> env.nonce] }

\* the struct literal of tx_for_signing
TxForSigning(wallet, to, amount_atomic, nonce, timestamp) ==
    [amount |-> U128ToString(amount_atomic), from |-> wallet.address, memo |-> <<>>,
     nonce |-> nonce, timestamp |-> timestamp, to |-> to]

\* the request with sender and recipient exchanged in the body
TransactionRequestSwapped(wallet, to, amount_atomic, timestamp, nonce, signature) ==
    [tx |-> [from |-> to, to |-> wallet.address, amount |-> amount_atomic,
             timestamp |-> timestamp, nonce |-> nonce, memo |-> <<>>],
     signature |-> signature, public_key |-> PublicKeyHex(wallet)]

\* the struct literal of request
TransactionRequest(wallet, to, amount_atomic, timestamp, nonce, signature) ==
    [tx |-> [from |-> wallet.address, to |-> to, amount |-> amount_atomic,
             timestamp |-> timestamp, nonce |-> nonce, memo |-> <<>>],
     signature |-> signature, public_key |-> PublicKeyHex(wallet)]

\* send_sltn from the answer of get_balance to the next await: the nonce, the
\* amount, the clock reading (an error when it is before the epoch), the
\* payload, the signature, the request, and the POST sent
SendAfterBalance(c, balance, now) ==
    LET call == calls[c]
        nonce == BalanceNonce(c, balance)
        amount_atomic == AmountAtomic(call.amount_sltn)
        tx_for_signing == TxForSigning(SdkWallet, call.to, amount_atomic, nonce, now)
        message == TransactionForSigningJson(tx_for_signing)
        signature == Sign(SdkWallet, AsBytes(message))
        request == TransactionRequest(SdkWallet, call.to, amount_atomic, now, nonce, signature)
    IN IF now < 0
       THEN [call EXCEPT !.pc = "done",
                         !.balance = balance,
                         !.seen = Cardinality(env.accepted),
                         !.nonce = nonce,
                         !.amount_atomic = amount_atomic,
                         !.result = [ok |-> FALSE, value |-> "SystemTimeError"],
                         !.events = @ \o << "balance:ok", "time:err" >>]
       ELSE [call EXCEPT !.pc = "await_post",
                         !.balance = balance,
                         !.seen = Cardinality(env.accepted),
                         !.nonce = nonce,
                         !.amount_atomic = amount_atomic,
                         !.timestamp = now,
                         !.message = message,
                         !.signature = signature,
                         !.request = request,
                         !.requests = Append(@, HttpPost(base_url \o TxPath, request)),
                         !.events = @ \o << "balance:ok", "sign", "post:send" >>]

\* let balance = self.get_balance(&wallet.address): the request is sent
SendStart(c) ==
    /\ calls[c].pc = "idle"
    /\ calls' = [calls EXCEPT ![c].pc = "await_balance",
                              ![c].requests = Append(@, BalanceRequest(SdkWallet.address)),
                              ![c].events = Append(@, "balance:send")]
    /\ UNCHANGED <<wallets, origin, ret, base_url, query, env>>

\* a failed balance query asked again instead of returned
BalanceReplyErrRetried(c) ==
    /\ calls[c].pc = "await_balance"
    /\ Len(calls[c].requests) < 3
    /\ calls' = [calls EXCEPT ![c].requests = Append(@, BalanceRequest(SdkWallet.address)),
                              ![c].events = Append(@, "balance:err")]
    /\ UNCHANGED <<wallets, origin, ret, base_url, query, env>>

\* .send().await? or .json().await? of get_balance fails: `?` returns the error
BalanceReplyErr(c) ==
    /\ calls[c].pc = "await_balance"
    /\ \E kind \in {"send", "json"} :
         calls' = [calls EXCEPT ![c].pc = "done",
                                ![c].result = [ok |-> FALSE, value |-> kind],
                                ![c].events = Append(@, "balance:err")]
    /\ UNCHANGED <<wallets, origin, ret, base_url, query, env>>

\* get_balance returns Ok(balance) and send_sltn runs on to its POST
BalanceReplyOk(c) ==
    /\ calls[c].pc = "await_balance"
    /\ \E balance \in BalanceResponses(SdkWallet.address), now \in env.clocks :
         calls' = [calls EXCEPT ![c] = SendAfterBalance(c, balance, now)]
    /\ UNCHANGED <<wallets, origin, ret, base_url, query, env>>

\* .send().await? or .json().await? of the POST fails: `?` returns the error
PostReplyErr(c) ==
    /\ calls[c].pc = "await_post"
    /\ \E kind \in {"send", "json"} :
         calls' = [calls EXCEPT ![c].pc = "done",
                                ![c].result = [ok |-> FALSE, value |-> kind],
                                ![c].events = Append(@, "post:err")]
    /\ UNCHANGED <<wallets, origin, ret, base_url, query, env>>

\* Ok(response)
PostReplyOk(c) ==
    /\ calls[c].pc = "await_post"
    /\ calls' = [calls EXCEPT ![c].pc = "done",
                              ![c].result = [ok |-> TRUE, value |-> "TransactionResponse"],
                              ![c].events = Append(@, "post:ok")]
    /\ UNCHANGED <<wallets, origin, ret, base_url, query, env>>

\* the remote service accepts a posted transfer that carries the account's next
\* nonce, and the account's nonce moves on
ChainAccept(c) ==
    /\ calls[c].pc \in {"await_post", "done"}
    /\ Len(calls[c].requests) = 2
    /\ c \notin env.accepted
    /\ calls[c].request.tx.nonce = env.nonce
    /\ env' = [env EXCEPT !.nonce = @ + 1, !.accepted = @ \cup {c}]
    /\ UNCHANGED <<wallets, origin, ret, base_url, calls, query>>

----------------------------------------------------------------------------
(* The queries: get_status, get_balance, get_balance_sltn, get_transaction *)

\* the addresses and transaction hashes callers ask about
QueryAddresses == { SdkWallet.address, << "s", "u", "l", "t", "a", "n", "1", "b", "b", "b" >> }
QueryHashes == { << "a", "b", "1", "2" >> }

QueryIssue(op, request) ==
    /\ query.pc \in {"idle", "done"}
    /\ query' = [pc |-> "await", op |-> op, requests |-> << request >>, result |-> NoResult]
    /\ UNCHANGED <<wallets, origin, ret, base_url, calls, env>>

\* get_status that asks the mainnet constant instead of self.base_url
GetStatusMainnet == QueryIssue("get_status", HttpGet(RPC_URL \o StatusPath))

\* get_status: format!("{}/status", self.base_url)
GetStatus == QueryIssue("get_status", HttpGet(base_url \o StatusPath))

\* get_balance(address)
GetBalance == \E address \in QueryAddresses : QueryIssue("get_balance", BalanceRequest(address))

\* get_balance_sltn(address): get_balance(address).await?
GetBalanceSltn ==
    \E address \in QueryAddresses : QueryIssue("get_balance_sltn", BalanceRequest(address))

\* get_transaction(hash): format!("{}/tx/{}", self.base_url, hash)
GetTransaction ==
    \E hash \in QueryHashes :
        QueryIssue("get_transaction", HttpGet(base_url \o TxPath \o Slash \o hash))

\* .send().await? or .json().await of a query fails
QueryReplyErr ==
    /\ query.pc = "await"
    /\ \E kind \in {"send", "json"} :
         query' = [query EXCEPT !.pc = "done", !.result = [ok |-> FALSE, value |-> kind]]
    /\ UNCHANGED <<wallets, origin, ret, base_url, calls, env>>

\* the parsed response is returned (get_balance_sltn returns the balance
\* divided by 10^9 as f64; the quotient is not computed here)
QueryReplyOk ==
    /\ query.pc = "await"
    /\ query' = [query EXCEPT !.pc = "done", !.result = [ok |-> TRUE, value |-> query.op]]
    /\ UNCHANGED <<wallets, origin, ret, base_url, calls, env>>

----------------------------------------------------------------------------
(* Specifications of the SDK *)

\* the f64 amounts callers send, as IEEE-754 bit patterns
F64_5 == << 4, 0, 1, 4, 0, 0, 0, 0, 0, 0, 0, 0, 0, 0, 0, 0 >>
F64_10 == << 4, 0, 2, 4, 0, 0, 0, 0, 0, 0, 0, 0, 0, 0, 0, 0 >>
F64_1EM9 == << 3, 14, 1, 1, 2, 14, 0, 11, 14, 8, 2, 6, 13, 6, 9, 5 >>
F64_0 == << 0, 0, 0, 0, 0, 0, 0, 0, 0, 0, 0, 0, 0, 0, 0, 0 >>
F64_NEG1 == << 11, 15, 15, 0, 0, 0, 0, 0, 0, 0, 0, 0, 0, 0, 0, 0 >>
F64_NAN == << 7, 15, 15, 8, 0, 0, 0, 0, 0, 0, 0, 0, 0, 0, 0, 0 >>
F64_INF == << 7, 15, 15, 0, 0, 0, 0, 0, 0, 0, 0, 0, 0, 0, 0, 0 >>
F64_1E30 == << 4, 6, 2, 9, 3, 14, 5, 9, 3, 9, 10, 0, 8, 12, 14, 10 >>
F64_1P9999999999 == << 3, 15, 15, 15, 15, 15, 15, 15, 15, 15, 15, 9, 2, 0, 12, 8 >>
F64_0P3 == << 3, 15, 13, 3, 3, 3, 3, 3, 3, 3, 3, 3, 3, 3, 3, 3 >>
F64_2P5EM10 == << 3, 13, 15, 1, 2, 14, 0, 11, 14, 8, 2, 6, 13, 6, 9, 5 >>
F64_123456789P123456789 == << 4, 1, 9, 13, 6, 15, 3, 4, 5, 4, 7, 14, 6, 11, 7, 5 >>

Amounts ==
    { F64_5, F64_10, F64_1EM9, F64_0, F64_NEG1, F64_NAN, F64_INF, F64_1E30,
      F64_1P9999999999, F64_0P3, F64_2P5EM10, F64_123456789P123456789 }

\* recipients: an address, and text that would close the string were it not escaped
Recipient == << "s", "u", "l", "t", "a", "n", "1", "b", "b", "b" >>
Recipients == { Recipient, << "x", "\"", ",", "\"", "a", "m", "o", "u", "n", "t", "\"", ":", "\"", "9" >>, << "a", "\\" >> }

SdkUrls == { RPC_URL, TESTNET_URL, CUSTOM_URL }

\* SultanSDK::new_mainnet(), new_testnet() or new(rpc_url), and the wallet of
\* slot 1 created or imported
InitSdk(urls, hows) ==
    /\ base_url \in urls
    /\ \E how \in hows :
         /\ origin = [s \in Slots |->
                        IF s # 1 THEN NoOrigin
                        ELSE IF how = "new" THEN [how |-> "new", hex |-> <<>>]
                        ELSE [how |-> "import", hex |-> HexEncode(GenerateKey(1))]]
         /\ wallets = [s \in Slots |->
                        IF s # 1 THEN NoWallet
                        ELSE IF how = "new" THEN NewWallets[1]
                        ELSE Imports[HexEncode(GenerateKey(1))].wallet]
    /\ ret = NoReturn
    /\ query = NoQuery

\* the transfers that are sent more than once
Transfers ==
    { [to |-> Recipient, amount_sltn |-> F64_5],
      [to |-> << "x", "\"", ",", "\"", "a", "m", "o", "u", "n", "t", "\"", ":", "\"", "9" >>,
       amount_sltn |-> F64_1E30] }

\* overlapping sends of the same transfer
InitSend ==
    /\ InitSdk({RPC_URL}, {"new"})
    /\ \E t \in Transfers : calls = [c \in Calls |-> NewCall("idle", t.to, t.amount_sltn)]
    /\ env = [nonce |-> 0, accepted |-> {}, clocks |-> {-1, 1700000000}]

\* one send, over the amounts, recipients, nonces and clock readings
InitInputs ==
    /\ InitSdk({RPC_URL}, {"import"})
    /\ \E to \in Recipients, amount_sltn \in Amounts :
         calls = [c \in Calls |-> IF c = 1 THEN NewCall("idle", to, amount_sltn) ELSE NoCall]
    /\ \E nonce \in {0, 3, 41} :
         env = [nonce |-> nonce, accepted |-> {}, clocks |-> {-1, 9, 1700000000}]

\* one send beside the queries, for each constructor of the SDK and the wallet
InitQueries ==
    /\ InitSdk(SdkUrls, {"new", "import"})
    /\ calls = [c \in Calls |-> IF c = 1 THEN NewCall("idle", Recipient, F64_5) ELSE NoCall]
    /\ env = [nonce |-> 0, accepted |-> {}, clocks |-> {-1, 1700000000}]

NextSend ==
    \E c \in Calls :
        \/ SendStart(c)
        \/ BalanceReplyOk(c)
        \/ BalanceReplyErr(c)
        \/ PostReplyOk(c)
        \/ PostReplyErr(c)
        \/ ChainAccept(c)

NextQueries ==
    \/ NextSend
    \/ GetStatus
    \/ GetBalance
    \/ GetBalanceSltn
    \/ GetTransaction
    \/ QueryReplyOk
    \/ QueryReplyErr

SpecSend == InitSend /\ [][NextSend]_vars
SpecInputs == InitInputs /\ [][NextSend]_vars
SpecQueries == InitQueries /\ [][NextQueries]_vars

----------------------------------------------------------------------------
(* Specification of the wallet alone *)

InitWallet ==
    /\ wallets = [s \in Slots |-> NoWallet]
    /\ origin = [s \in Slots |-> NoOrigin]
    /\ ret = NoReturn
    /\ base_url = <<>>
    /\ calls = [c \in Calls |-> NoCall]
    /\ query = NoQuery
    /\ env = [nonce |-> 0, accepted |-> {}, clocks |-> {}]

NextWallet ==
    \E s \in Slots :
        \/ WalletNew(s)
        \/ WalletFromPrivateKey(s)
        \/ WalletSign(s)
        \/ WalletPublicKeyHex(s)

SpecWallet == InitWallet /\ [][NextWallet]_vars

----------------------------------------------------------------------------
(* Properties of the wallet *)

HexDigitSet ==
    { "0", "1", "2", "3", "4", "5", "6", "7", "8", "9",
      "a", "b", "c", "d", "e", "f", "A", "B", "C", "D", "E", "F" }
LowerHexDigitSet ==
    { "0", "1", "2", "3", "4", "5", "6", "7", "8", "9", "a", "b", "c", "d", "e", "f" }

\* 64 hex digits: the inputs that decode to exactly 32 bytes
IsValidKeyHex(h) == Len(h) = 64 /\ \A i \in 1..Len(h) : h[i] \in HexDigitSet

Constructed(s) == origin[s].how # "none"

\* C5: from_private_key returns Err and constructs no wallet when the input is
\* not valid hex or does not decode to exactly 32 bytes, and returns Ok with a
\* wallet in the slot for every input of 64 hex digits.
C5_ImportValidation ==
    [][ret'.op = "from_private_key" =>
          IF IsValidKeyHex(ret'.input)
          THEN /\ ret'.ok
               /\ origin'[ret'.slot] = [how |-> "import", hex |-> ret'.input]
               /\ wallets'[ret'.slot] # NoWallet
               /\ Len(wallets'[ret'.slot].signing_key) = 32
          ELSE /\ ~ret'.ok
               /\ wallets' = wallets
               /\ origin' = origin]_vars

\* an input of 66 hex digits was refused after another import had succeeded
C5_Witness ==
    /\ ret.op = "from_private_key"
    /\ ~ret.ok
    /\ Len(ret.input) = 66
    /\ \A i \in 1..Len(ret.input) : ret.input[i] \in HexDigitSet
    /\ \E s \in Slots : origin[s].how = "import" /\ wallets[s] # NoWallet

\* C6: the address is a function of the public key alone: two wallets with the
\* same public key, however constructed, have the same address, and two imports
\* of the same hex string have the same public key and the same address.
C6_AddressFunctionOfPublicKey ==
    \A s1, s2 \in Slots :
        (Constructed(s1) /\ Constructed(s2)) =>
            /\ wallets[s1].public_key = wallets[s2].public_key
                  => wallets[s1].address = wallets[s2].address
            /\ (origin[s1].how = "import" /\ origin[s2] = origin[s1])
                  => /\ wallets[s1].public_key = wallets[s2].public_key
                     /\ wallets[s1].address = wallets[s2].address

\* a created wallet and an imported wallet hold the same public key
C6_Witness ==
    \E s1, s2 \in Slots :
        /\ origin[s1].how = "new"
        /\ origin[s2].how = "import"
        /\ wallets[s1].public_key = wallets[s2].public_key
        /\ wallets[s1].address = wallets[s2].address
        /\ Len(wallets[s1].address) > 7

Sultan1 == << "s", "u", "l", "t", "a", "n", "1" >>

\* C7: every wallet's address starts with sultan1, public_key_hex() is 64 hex
\* characters and sign(message) is 128 hex characters.
C7_WalletShapes ==
    /\ \A s \in Slots :
          Constructed(s) =>
             /\ Len(wallets[s].address) >= 7
             /\ SubSeq(wallets[s].address, 1, 7) = Sultan1
    /\ ret.op = "public_key_hex" =>
          /\ Len(ret.value) = 64
          /\ \A i \in 1..Len(ret.value) : ret.value[i] \in LowerHexDigitSet
    /\ ret.op = "sign" =>
          /\ Len(ret.value) = 128
          /\ \A i \in 1..Len(ret.value) : ret.value[i] \in LowerHexDigitSet

\* an imported wallet signed a non-empty message
C7_Witness ==
    /\ ret.op = "sign"
    /\ Len(ret.input) > 0
    /\ origin[ret.slot].how = "import"
    /\ Len(ret.value) = 128

----------------------------------------------------------------------------
(* Reading a payload back: a scanner of compact JSON objects whose members are *)
(* strings and unsigned integers, and the value of a decimal numeral.          *)

DigitChars == { DIGITS[i] : i \in 1..Len(DIGITS) }
DigitOf(ch) == (CHOOSE i \in 1..Len(DIGITS) : DIGITS[i] = ch) - 1

\* a decimal numeral: digits only, with no leading zero unless it is "0"
IsDecimal(text) ==
    /\ Len(text) >= 1
    /\ \A i \in 1..Len(text) : text[i] \in DigitChars
    /\ Len(text) > 1 => text[1] # "0"

RECURSIVE Pow10BN(_)
Pow10BN(k) ==
    IF k <= 9 THEN BNFromNat(POW10[k + 1])
    ELSE BNMul(Pow10BN(k \div 2), Pow10BN(k - (k \div 2)))

RECURSIVE DecimalValue(_)
\* the number written by a sequence of decimal digits
DecimalValue(ds) ==
    IF Len(ds) <= 9
    THEN LET Term(i) == IF i <= Len(ds) THEN ds[i] * POW10[Len(ds) - i + 1] ELSE 0
         IN BNFromNat(Sum9(Term))
    ELSE LET h == Len(ds) \div 2
             left == DecimalValue(SubSeq(ds, 1, h))
             right == DecimalValue(SubSeq(ds, h + 1, Len(ds)))
         IN BNAdd(BNMul(left, Pow10BN(Len(ds) - h)), right)

NumeralValue(text) == DecimalValue([i \in 1..Len(text) |-> DigitOf(text[i])] \o <<>>)

\* the number of backslashes in a row that end just before position j, none of
\* them before position lo
BackslashesBefore(s, lo, j) ==
    CHOOSE n \in 0..(j - lo) :
        /\ \A k \in 1..n : s[j - k] = "\\"
        /\ n = j - lo \/ s[j - n - 1] # "\\"

\* the position of the quote that closes the string opened at position i, or 0
StringClose(s, i) ==
    LET closing == { j \in (i + 1)..Len(s) :
                        s[j] = "\"" /\ BackslashesBefore(s, i + 1, j) % 2 = 0 }
    IN IF closing = {} THEN 0 ELSE CHOOSE j \in closing : \A k \in closing : j <= k

\* whether position k of the string opened at i starts an escape
StartsEscape(s, i, k) == s[k] = "\\" /\ BackslashesBefore(s, i + 1, k) % 2 = 0

\* the only escapes are those of the quote and of the backslash
StringWellEscaped(s, i, j) ==
    \A k \in (i + 1)..(j - 1) :
        StartsEscape(s, i, k) => k + 1 < j /\ s[k + 1] \in { "\"", "\\" }

\* the text of the string between the quotes at i and j, escapes undone
StringText(s, i, j) ==
    LET Kept(k) == ~StartsEscape(s, i, k)
        At(kept) == [n \in 1..Len(kept) |-> s[kept[n]]] \o <<>>
    IN At(SelectSeq([n \in 1..(j - i - 1) |-> i + n], Kept))

\* the last position of the digits that start at position v, or 0
NumberEnd(s, v) ==
    IF s[v] \notin DigitChars THEN 0
    ELSE CHOOSE e \in v..Len(s) :
            /\ \A k \in v..e : s[k] \in DigitChars
            /\ e = Len(s) \/ s[e + 1] \notin DigitChars

NoParse == [ok |-> FALSE, members |-> <<>>]

RECURSIVE ParseMembers(_, _)
\* the members "key":value separated by commas from position p to the closing brace
ParseMembers(s, p) ==
    IF p > Len(s) \/ s[p] # "\"" THEN NoParse
    ELSE LET ke == StringClose(s, p)
         IN IF ke = 0 \/ ke + 2 > Len(s) \/ s[ke + 1] # ":" THEN NoParse
            ELSE LET v == ke + 2
                     quoted == s[v] = "\""
                     ve == IF quoted THEN StringClose(s, v) ELSE NumberEnd(s, v)
                 IN IF ve = 0 \/ ve + 1 > Len(s) THEN NoParse
                    ELSE IF ~StringWellEscaped(s, p, ke) THEN NoParse
                    ELSE IF quoted /\ ~StringWellEscaped(s, v, ve) THEN NoParse
                    ELSE LET member ==
                                 [key |-> StringText(s, p, ke),
                                  kind |-> IF quoted THEN "string" ELSE "number",
                                  text |-> IF quoted THEN StringText(s, v, ve)
                                           ELSE SubSeq(s, v, ve)]
                         IN IF s[ve + 1] = "}"
                            THEN (IF ve + 1 = Len(s)
                                  THEN [ok |-> TRUE, members |-> << member >>]
                                  ELSE NoParse)
                            ELSE IF s[ve + 1] = ","
                            THEN LET rest == ParseMembers(s, ve + 2)
                                 IN IF rest.ok
                                    THEN [ok |-> TRUE, members |-> << member >> \o rest.members]
                                    ELSE NoParse
                            ELSE NoParse

\* a compact JSON object read back into its members, in order
ParseObject(s) == IF Len(s) < 2 \/ s[1] # "{" THEN NoParse ELSE ParseMembers(s, 2)

----------------------------------------------------------------------------
(* Properties of send_sltn's payload, amount and request *)

HasEvent(c, e) == \E i \in 1..Len(calls[c].events) : calls[c].events[i] = e
EventAt(c, e) == CHOOSE i \in 1..Len(calls[c].events) : calls[c].events[i] = e

\* the call has signed a payload
Signed(c) == HasEvent(c, "sign")
\* the call has sent its POST /tx
Posted(c) == HasEvent(c, "post:send")

PayloadKeys == << K_amount, K_from, K_memo, K_nonce, K_timestamp, K_to >>
PayloadKinds == << "string", "string", "string", "number", "number", "string" >>

\* the field values a payload was built from
Intent(c) ==
    << calls[c].amount_atomic, SdkWallet.address, calls[c].nonce, calls[c].timestamp, calls[c].to >>

\* C1: the signed bytes are a compact JSON object with the keys amount, from,
\* memo, nonce, timestamp, to once each and in this order, the amount a string
\* of decimal digits (5000000000 for 5.0), nonce and timestamp bare decimal
\* integers; equal field values give equal bytes.
C1_SigningPayloadCanonical ==
    \A c \in Calls :
        Signed(c) =>
            LET p == ParseObject(calls[c].message)
            IN /\ p.ok
               /\ [i \in 1..Len(p.members) |-> p.members[i].key] = PayloadKeys
               /\ [i \in 1..Len(p.members) |-> p.members[i].kind] = PayloadKinds
               /\ IsDecimal(p.members[1].text)
               /\ IsDecimal(p.members[4].text)
               /\ IsDecimal(p.members[5].text)
               /\ calls[c].amount_sltn = F64_5 => Str(p.members[1].text) = "5000000000"
               /\ \A d \in Calls :
                     (Signed(d) /\ Intent(d) = Intent(c)) => calls[d].message = calls[c].message

\* two calls signed the same payload, of the 39 digits of u128::MAX for a
\* recipient whose text holds quotes
C1_Witness ==
    \E c, d \in Calls :
        /\ c # d
        /\ Signed(c)
        /\ Signed(d)
        /\ Intent(c) = Intent(d)
        /\ calls[c].message = calls[d].message
        /\ calls[c].amount_atomic = U128_MAX
        /\ \E i \in 1..Len(calls[c].to) : calls[c].to[i] = "\""

\* what (amount_sltn * 10^9) as u128 is for each amount, in decimal digits
ExpectedAtomic ==
    [a \in Amounts |->
       IF a = F64_5 THEN << 5, 0, 0, 0, 0, 0, 0, 0, 0, 0 >>
       ELSE IF a = F64_10 THEN << 1, 0, 0, 0, 0, 0, 0, 0, 0, 0, 0 >>
       ELSE IF a = F64_1EM9 THEN << 1 >>
       ELSE IF a = F64_1P9999999999 THEN << 1, 9, 9, 9, 9, 9, 9, 9, 9, 9 >>
       ELSE IF a = F64_0P3 THEN << 3, 0, 0, 0, 0, 0, 0, 0, 0 >>
       ELSE IF a = F64_123456789P123456789
       THEN << 1, 2, 3, 4, 5, 6, 7, 8, 9, 1, 2, 3, 4, 5, 6, 7, 8, 4 >>
       ELSE IF a \in { F64_INF, F64_1E30 }
       THEN << 3, 4, 0, 2, 8, 2, 3, 6, 6, 9, 2, 0, 9, 3, 8, 4, 6, 3, 4, 6,
               3, 3, 7, 4, 6, 0, 7, 4, 3, 1, 7, 6, 8, 2, 1, 1, 4, 5, 5 >>
       ELSE << 0 >>]

\* the call has computed its amount
Converted(c) == HasEvent(c, "balance:ok")

\* C8: the atomic amount is the f64 product of the display amount and 10^9 cut
\* to an unsigned integer: 10.0 gives 10000000000, 0.000000001 gives 1, a
\* fraction of an atomic unit is dropped, and the result is never below zero
\* (a negative amount or NaN gives 0) nor above u128::MAX.
C8_AtomicAmount ==
    \A c \in Calls :
        Converted(c) =>
            /\ calls[c].amount_atomic = DecimalValue(ExpectedAtomic[calls[c].amount_sltn])
            /\ \A i \in 1..Len(calls[c].amount_atomic) :
                  calls[c].amount_atomic[i] >= 0 /\ calls[c].amount_atomic[i] < LIMB
            /\ Len(calls[c].amount_atomic) <= Len(U128_MAX)
            /\ calls[c].amount_sltn = F64_10 =>
                  Str(U128ToString(calls[c].amount_atomic)) = "10000000000"
            /\ calls[c].amount_sltn = F64_1EM9 => calls[c].amount_atomic = << 1 >>
            /\ calls[c].amount_sltn \in { F64_NEG1, F64_NAN, F64_0 } => calls[c].amount_atomic = <<>>

\* 1.9999999999 was converted to 1999999999
C8_Witness ==
    \E c \in Calls :
        /\ Converted(c)
        /\ calls[c].amount_sltn = F64_1P9999999999
        /\ calls[c].amount_atomic = BNFromNat(1999999999)

\* C9: the posted body and the signed payload describe one intent: from is the
\* wallet's address, to the argument, nonce and timestamp the same numbers, memo
\* empty, the payload's amount the decimal numeral of the body's amount; the
\* signature is the wallet's over the payload and public_key the wallet's key.
C9_EnvelopeMatchesPayload ==
    \A c \in Calls :
        Posted(c) =>
            LET p == ParseObject(calls[c].message)
                tx == calls[c].request.tx
                post == calls[c].requests[Len(calls[c].requests)]
            IN /\ post.method = "POST"
               /\ post.body = calls[c].request
               /\ p.ok
               /\ Len(p.members) = 6
               /\ [i \in 1..Len(p.members) |-> p.members[i].key] = PayloadKeys
               /\ tx.from = SdkWallet.address
               /\ p.members[2].text = tx.from
               /\ tx.to = calls[c].to
               /\ p.members[6].text = tx.to
               /\ tx.memo = <<>>
               /\ p.members[3].text = tx.memo
               /\ IsDecimal(p.members[4].text)
               /\ NumeralValue(p.members[4].text) = BNFromNat(tx.nonce)
               /\ IsDecimal(p.members[5].text)
               /\ NumeralValue(p.members[5].text) = BNFromNat(tx.timestamp)
               /\ IsDecimal(p.members[1].text)
               /\ NumeralValue(p.members[1].text) = tx.amount
               /\ tx.amount = calls[c].amount_atomic
               /\ calls[c].request.signature
                     = HexEncode(Ed25519Sign(SdkWallet.signing_key, AsBytes(calls[c].message)))
               /\ calls[c].request.public_key = HexEncode(SdkWallet.public_key)

\* a request was posted with an amount of 39 digits, a nonce above zero and a
\* recipient whose text ends in a backslash
C9_Witness ==
    \E c \in Calls :
        /\ Posted(c)
        /\ calls[c].amount_sltn = F64_1E30
        /\ calls[c].request.tx.amount = U128_MAX
        /\ calls[c].request.tx.nonce = 41
        /\ calls[c].to[Len(calls[c].to)] = "\\"
        /\ Len(calls[c].request.signature) = 128

----------------------------------------------------------------------------
(* Properties of send_sltn's steps *)

\* the requests of a call with the given method
RequestsBy(c, method) ==
    { i \in 1..Len(calls[c].requests) : calls[c].requests[i].method = method }

\* C2: in every send_sltn the GET /balance/{wallet.address} is answered before
\* the payload is signed and the payload is signed before POST /tx is sent, and
\* the nonce in the signed payload and in the posted body is the nonce that this
\* balance query returned.
C2_OrderAndNonce ==
    \A c \in Calls :
        /\ Len(calls[c].requests) >= 1 =>
              calls[c].requests[1] = HttpGet(base_url \o BalancePath \o SdkWallet.address)
        /\ Signed(c) =>
              /\ HasEvent(c, "balance:send")
              /\ HasEvent(c, "balance:ok")
              /\ EventAt(c, "balance:send") < EventAt(c, "balance:ok")
              /\ EventAt(c, "balance:ok") < EventAt(c, "sign")
              /\ LET p == ParseObject(calls[c].message)
                 IN /\ p.ok
                    /\ Len(p.members) = 6
                    /\ p.members[4].key = K_nonce
                    /\ IsDecimal(p.members[4].text)
                    /\ NumeralValue(p.members[4].text) = BNFromNat(calls[c].balance.nonce)
        /\ Posted(c) =>
              /\ Signed(c)
              /\ EventAt(c, "sign") < EventAt(c, "post:send")
              /\ Len(calls[c].requests) = 2
              /\ calls[c].requests[2].method = "POST"
              /\ calls[c].requests[2].url = base_url \o TxPath
              /\ calls[c].requests[2].body.tx.nonce = calls[c].balance.nonce

\* a send posted nonce 1, which its balance query returned after an earlier
\* transfer had been accepted
C2_Witness ==
    \E c \in Calls :
        /\ Posted(c)
        /\ calls[c].balance.nonce = 1
        /\ calls[c].requests[2].body.tx.nonce = 1
        /\ env.accepted # {}

\* C3: a failure ends the call with an error at that step: after a failed
\* balance query nothing is signed and nothing is posted, a failed POST returns
\* the error, and no call sends more than one GET /balance or one POST /tx.
C3_FailurePropagation ==
    \A c \in Calls :
        /\ HasEvent(c, "balance:err") =>
              /\ calls[c].pc = "done"
              /\ ~calls[c].result.ok
              /\ calls[c].events = << "balance:send", "balance:err" >>
              /\ calls[c].message = <<>>
              /\ calls[c].signature = <<>>
              /\ RequestsBy(c, "POST") = {}
        /\ HasEvent(c, "time:err") =>
              /\ calls[c].pc = "done"
              /\ ~calls[c].result.ok
              /\ calls[c].signature = <<>>
              /\ RequestsBy(c, "POST") = {}
        /\ HasEvent(c, "post:err") =>
              /\ calls[c].pc = "done"
              /\ ~calls[c].result.ok
              /\ calls[c].events[Len(calls[c].events)] = "post:err"
        /\ (calls[c].pc = "done" /\ calls[c].result.ok) =>
              calls[c].events = << "balance:send", "balance:ok", "sign", "post:send", "post:ok" >>
        /\ Cardinality(RequestsBy(c, "GET")) <= 1
        /\ Cardinality(RequestsBy(c, "POST")) <= 1

\* one call ended at its failed balance query and another at its failed POST
C3_Witness ==
    \E c, d \in Calls :
        /\ calls[c].pc = "done"
        /\ calls[c].events = << "balance:send", "balance:err" >>
        /\ ~calls[c].result.ok
        /\ calls[d].pc = "done"
        /\ HasEvent(d, "post:err")
        /\ ~calls[d].result.ok
        /\ Cardinality(RequestsBy(d, "POST")) = 1

\* C4: two sends whose balance queries were answered with no transfer accepted
\* in between post the same nonce; nothing in the client tells them apart.
C4_NonceCollision ==
    \A c, d \in Calls :
        (Posted(c) /\ Posted(d) /\ calls[c].seen = calls[d].seen) =>
            /\ calls[c].request.tx.nonce = calls[d].request.tx.nonce
            /\ calls[c].requests[2].body.tx.nonce = calls[d].requests[2].body.tx.nonce

\* two sends are in flight with the same nonce and neither has been accepted
C4_Witness ==
    \E c, d \in Calls :
        /\ c # d
        /\ calls[c].pc = "await_post"
        /\ calls[d].pc = "await_post"
        /\ calls[c].requests[2].body.tx.nonce = calls[d].requests[2].body.tx.nonce
        /\ calls[c].requests[2].body.tx.from = calls[d].requests[2].body.tx.from
        /\ env.accepted = {}

----------------------------------------------------------------------------
(* Properties of the SDK as a whole *)

\* the paths of the service
RequestPaths ==
    { StatusPath, TxPath }
    \cup { BalancePath \o address : address \in QueryAddresses }
    \cup { TxPath \o Slash \o hash : hash \in QueryHashes }

\* every request in a sequence goes to the given base URL
Addressed(requests, url) ==
    \A i \in 1..Len(requests) : \E path \in RequestPaths : requests[i].url = url \o path

\* C10: no operation of the SDK, failed or not, changes the wallet or base_url,
\* and every request goes to the base_url the SDK was constructed with.
C10_Frame ==
    [][/\ wallets' = wallets
       /\ origin' = origin
       /\ base_url' = base_url
       /\ Addressed(query'.requests, base_url)
       /\ \A c \in Calls : Addressed(calls'[c].requests, base_url)]_vars

\* on a custom base_url a send and get_transaction have failed and the imported
\* wallet is as it was constructed
C10_Witness ==
    /\ base_url = CUSTOM_URL
    /\ origin[1].how = "import"
    /\ wallets[1] = Imports[origin[1].hex].wallet
    /\ query.pc = "done"
    /\ query.op = "get_transaction"
    /\ ~query.result.ok
    /\ Len(query.requests) = 1
    /\ \E c \in Calls : calls[c].pc = "done" /\ HasEvent(c, "post:err")

====
